---- MODULE Spec2Model ----
(***************************************************************************)
(* Model of src/app.py: the video-to-article conversion tool.              *)
(*                                                                         *)
(* Strings that the program takes apart (the service response, the         *)
(* article) are sequences of tokens; a token is a TLA+ string standing for *)
(* one character or for one indivisible piece of text ("frames/", a file   *)
(* name, a JSON literal).  Frame file names are built as real strings.     *)
(* A duration is a float number of seconds; it is held as an integer       *)
(* number of ticks, Ticks ticks to the second.                             *)
(***************************************************************************)
EXTENDS Integers, Sequences, FiniteSets, TLC

VARIABLES
    pc,             \* position of the running handler / function
    duration,       \* ffprobe's duration of the video, in ticks
    interval,       \* the screenshot interval (slider value), seconds
    frames,         \* list of frame records returned by extract_frames
    response,       \* response.text of the transcription service call
    transcription,  \* value returned by transcribe_audio_gemini
    article,        \* response.text of the article generation call
    frames_dir,     \* files that exist under <output_dir>/frames
    preview_html,   \* result of generate_preview_html
    displayed,      \* st.markdown / st.image calls of display_article, in order
    request,        \* number of the conversion request (button press)
    tmp_dirs,       \* requests whose mkdtemp directory exists on disk
    exc,            \* exception raised in the current request, "" if none
    error_shown     \* st.error has been called in the current request

vars == <<pc, duration, interval, frames, response, transcription, article,
          frames_dir, preview_html, displayed, request, tmp_dirs, exc,
          error_shown>>

(***************************************************************************)
(* Bounds of the model.                                                    *)
(***************************************************************************)
Ticks == 2
MaxSeconds == 66
MaxInterval == 10
MaxResponseLen == 4
MaxArticleParts == 3
MaxRequests == 2

Range(s) == {s[k] : k \in DOMAIN s}

(***************************************************************************)
(* Python built-ins used by the program.                                   *)
(***************************************************************************)
\* int(x) for a float x >= 0 held in ticks: truncation.
int(x) == x \div Ticks

\* list(range(0, stop, step)) for step >= 1.
range(stop, step) ==
    IF stop <= 0 THEN <<>>
    ELSE [k \in 1..((stop + step - 1) \div step) |-> (k - 1) * step]

\* format(i, "04d") for i >= 0: decimal, zero-padded to at least 4 digits.
pad04d(i) ==
    IF i < 10 THEN "000" \o ToString(i)
    ELSE IF i < 100 THEN "00" \o ToString(i)
    ELSE IF i < 1000 THEN "0" \o ToString(i)
    ELSE ToString(i)

(***************************************************************************)
(* extract_frames (src/app.py 85-107).                                     *)
(***************************************************************************)
\* The timestamp list, lines 91-93.
timestamps_of(d, i) ==
    LET ts == range(int(d), i)
    IN  IF int(d) \notin Range(ts) THEN Append(ts, int(d) - 1) ELSE ts

\* A file name that leaves the index out.
frame_filename_no_index(i, ts) == "frame_" \o ToString(ts) \o "s.jpg"

\* f"frame_{i:04d}_{ts}s.jpg", line 96.
frame_filename(i, ts) ==
    "frame_" \o pad04d(i) \o "_" \o ToString(ts) \o "s.jpg"

\* The record appended for the k-th timestamp (enumerate index k-1),
\* lines 95-106.  path is held relative to frames_dir.
frame_record(k, ts) ==
    [index |-> k - 1, timestamp |-> ts,
     filename |-> frame_filename(k - 1, ts),
     path |-> <<frame_filename(k - 1, ts)>>]

\* The returned list when every ffmpeg call succeeds.
extract_frames(d, i) ==
    LET ts == timestamps_of(d, i)
    IN  [k \in 1..Len(ts) |-> frame_record(k, ts[k])]

(***************************************************************************)
(* Strings as token sequences: str.strip, str.split, str.join.             *)
(***************************************************************************)
SP == " "
NL == "\n"
\* the three-backquote code fence opener, one token
FENCE == "<fence>"

IsSpace(t) == t \in {SP, NL}

RECURSIVE lstrip(_)
lstrip(s) ==
    IF s # <<>> /\ IsSpace(Head(s)) THEN lstrip(Tail(s)) ELSE s

RECURSIVE rstrip(_)
rstrip(s) ==
    IF s # <<>> /\ IsSpace(s[Len(s)]) THEN rstrip(SubSeq(s, 1, Len(s) - 1))
    ELSE s

\* s.strip()
strip(s) == rstrip(lstrip(s))

\* s.startswith(t) for a one-token prefix t
startswith(s, t) == s # <<>> /\ Head(s) = t

\* s.split(sep): the list of the pieces between the separators (never empty).
RECURSIVE split(_, _)
split(s, sep) ==
    IF \E k \in DOMAIN s : s[k] = sep
    THEN LET k == CHOOSE j \in DOMAIN s :
                      s[j] = sep /\ \A h \in 1..(j - 1) : s[h] # sep
         IN  <<SubSeq(s, 1, k - 1)>> \o split(SubSeq(s, k + 1, Len(s)), sep)
    ELSE <<s>>

\* sep.join(pieces)
RECURSIVE join(_, _)
join(pieces, sep) ==
    IF pieces = <<>> THEN <<>>
    ELSE IF Len(pieces) = 1 THEN pieces[1]
    ELSE pieces[1] \o <<sep>> \o join(Tail(pieces), sep)

(***************************************************************************)
(* json.loads on the texts the model draws.  A JSON document is optional   *)
(* whitespace, one value, optional whitespace; the values are the tokens   *)
(* below, each standing for the JSON text written beside it.               *)
(***************************************************************************)
JSON_NULL == "null"
JSON_EMPTY_OBJECT == "{}"
JSON_TRANSCRIPT ==
    "{full_text:t,segments:[{start:0.0,end:5.0,text:t}]}"

JsonTokens == {JSON_NULL, JSON_EMPTY_OBJECT, JSON_TRANSCRIPT}

PyNone == [type |-> "NoneType", items |-> <<>>]
PyDict(d) == [type |-> "dict", items |-> d]

json_value(t) ==
    IF t = JSON_NULL THEN PyNone
    ELSE IF t = JSON_EMPTY_OBJECT THEN PyDict(<<>>)
    ELSE PyDict([full_text |-> <<"t">>,
                 segments |-> <<[start |-> 0, end |-> 5, text |-> <<"t">>]>>])

\* json.loads(s) succeeds (no JSONDecodeError)
json_valid(s) == Len(strip(s)) = 1 /\ strip(s)[1] \in JsonTokens

json_loads(s) == json_value(strip(s)[1])

(***************************************************************************)
(* transcribe_audio_gemini, response handling (src/app.py 150-168).        *)
(***************************************************************************)
\* not l.strip().startswith(FENCE), line 156
not_fence_line(l) == ~startswith(strip(l), FENCE)

\* lines 151-157: the text handed to json.loads
clean_response(text) ==
    LET response_text == strip(text)
    IN  IF startswith(response_text, FENCE)
        THEN join(SelectSeq(split(response_text, NL), not_fence_line), NL)
        ELSE response_text

\* lines 163-166
fallback_transcription(response_text) ==
    PyDict([full_text |-> response_text,
            segments |-> <<[start |-> 0, end |-> 0, text |-> response_text]>>])

\* A fallback that keeps the text as the service sent it.
transcribe_result_raw_fallback(text) ==
    IF json_valid(clean_response(text)) THEN json_loads(clean_response(text))
    ELSE fallback_transcription(text)

\* lines 159-168
transcribe_result(text) ==
    LET response_text == clean_response(text)
    IN  IF json_valid(response_text) THEN json_loads(response_text)
        ELSE fallback_transcription(response_text)

(***************************************************************************)
(* The placeholder pattern of lines 248, 297 and 299, matched token by     *)
(* token: "!", "[", any tokens but "]", "]", "(", "frames/", one or more   *)
(* tokens but ")", ")".  Neither character class can run past its closing  *)
(* delimiter, so the match at a position is unique.                        *)
(***************************************************************************)
NoMatch == [found |-> FALSE, start |-> 0, end |-> 0, alt |-> <<>>, path |-> <<>>]

\* index of the first t at or after position i, 0 if there is none
first_index(s, t, i) ==
    IF \E k \in i..Len(s) : s[k] = t
    THEN CHOOSE k \in i..Len(s) : s[k] = t /\ \A h \in i..(k - 1) : s[h] # t
    ELSE 0

\* The match beginning exactly at position i.  heads is the set of tokens
\* the parenthesised target may begin with ({"frames/"} in the program).
\* path is the whole target, the leading token included.
match_at(s, i, heads) ==
    LET j == first_index(s, "]", i + 2)
        k == first_index(s, ")", j + 2)
    IN  IF /\ i + 1 <= Len(s) /\ s[i] = "!" /\ s[i + 1] = "["
           /\ j # 0 /\ j + 2 <= Len(s)
           /\ s[j + 1] = "(" /\ s[j + 2] \in heads
           /\ k > j + 3
        THEN [found |-> TRUE, start |-> i, end |-> k,
              alt |-> SubSeq(s, i + 2, j - 1), path |-> SubSeq(s, j + 2, k - 1)]
        ELSE NoMatch

\* re.search from position i: the leftmost match
RECURSIVE search_from(_, _, _)
search_from(s, i, heads) ==
    IF i > Len(s) THEN NoMatch
    ELSE IF match_at(s, i, heads).found THEN match_at(s, i, heads)
    ELSE search_from(s, i + 1, heads)

\* re.finditer: the non-overlapping matches, left to right
RECURSIVE finditer_from(_, _, _)
finditer_from(s, i, heads) ==
    LET m == search_from(s, i, heads)
    IN  IF m.found THEN <<m>> \o finditer_from(s, m.end + 1, heads) ELSE <<>>

finditer(s, heads) == finditer_from(s, 1, heads)

FramesHead == {"frames/"}

(***************************************************************************)
(* os.path on paths held as token sequences relative to frames_dir.  The   *)
(* empty path is frames_dir itself.  "frames/" ends in a separator.        *)
(***************************************************************************)
IsSep(t) == t \in {"/", "frames/"}

\* os.path.basename(p): what follows the last separator
RECURSIVE basename(_)
basename(p) ==
    IF \E k \in DOMAIN p : IsSep(p[k])
    THEN basename(SubSeq(p, 1 + (CHOOSE k \in DOMAIN p : IsSep(p[k])), Len(p)))
    ELSE p

\* os.path.join(frames_dir, name), as a path relative to frames_dir
path_join(name) == name

\* os.path.exists(p) for p under a directory holding exactly the files dir
path_exists(dir, p) == p = <<>> \/ p \in dir

\* the text of a path
RECURSIVE path_text(_)
path_text(p) == IF p = <<>> THEN "" ELSE Head(p) \o path_text(Tail(p))

(***************************************************************************)
(* generate_preview_html (src/app.py 231-292): the Markdown after the      *)
(* substitution of line 247, before the markdown library turns it to HTML. *)
(***************************************************************************)
\* base64.b64encode(f.read()).decode() for the file at p, one token
DATA_PREFIX == "data:image/jpeg;base64,"
b64(p) == "b64<" \o path_text(p) \o ">"

\* open(full_path, "rb") raises IsADirectoryError on a directory
open_raises(p) == p = <<>>

\* replace_image_with_base64, lines 236-244: the replacement text
replace_image_with_base64(dir, s, m) ==
    LET full_path == path_join(basename(m.path))
    IN  IF path_exists(dir, full_path)
        THEN <<"!", "[">> \o m.alt \o <<"]", "(", DATA_PREFIX, b64(full_path), ")">>
        ELSE SubSeq(s, m.start, m.end)

\* re.sub, lines 247-251
RECURSIVE re_sub_from(_, _, _)
re_sub_from(dir, s, i) ==
    LET m == search_from(s, i, FramesHead)
    IN  IF m.found
        THEN SubSeq(s, i, m.start - 1) \o replace_image_with_base64(dir, s, m)
             \o re_sub_from(dir, s, m.end + 1)
        ELSE SubSeq(s, i, Len(s))

generate_preview_html(article_content, dir) ==
    LET ms == finditer(article_content, FramesHead)
        hit == {k \in DOMAIN ms :
                   /\ path_exists(dir, path_join(basename(ms[k].path)))
                   /\ open_raises(path_join(basename(ms[k].path)))}
    IN  IF hit # {} THEN [raised |-> "IsADirectoryError", text |-> <<>>]
        ELSE [raised |-> "", text |-> re_sub_from(dir, article_content, 1)]

(***************************************************************************)
(* display_article (src/app.py 295-307).                                   *)
(***************************************************************************)
\* re.split with the whole pattern captured, line 297: text, delimiter,
\* text, ..., text
RECURSIVE re_split_from(_, _)
re_split_from(s, i) ==
    LET m == search_from(s, i, FramesHead)
    IN  IF m.found
        THEN <<SubSeq(s, i, m.start - 1), SubSeq(s, m.start, m.end)>>
             \o re_split_from(s, m.end + 1)
        ELSE <<SubSeq(s, i, Len(s))>>

re_split(s) == re_split_from(s, 1)

image_chunk(fname, alt) == [kind |-> "image", payload |-> fname, caption |-> alt]
text_chunk(part) == [kind |-> "text", payload |-> part, caption |-> <<>>]

\* A loop body that shows an image without looking for its file.
display_part_unchecked(dir, part) ==
    LET img_match == match_at(part, 1, FramesHead)
    IN  IF img_match.found
        THEN <<image_chunk(path_join(Tail(img_match.path)), img_match.alt)>>
        ELSE IF strip(part) # <<>> THEN <<text_chunk(part)>>
        ELSE <<>>

\* the body of the loop, lines 299-307: what one part emits
display_part(dir, part) ==
    LET img_match == match_at(part, 1, FramesHead)
        alt == img_match.alt
        fname == Tail(img_match.path)
        frame_path == path_join(fname)
    IN  IF img_match.found
        THEN (IF path_exists(dir, frame_path)
              THEN <<image_chunk(frame_path, alt)>> ELSE <<>>)
        ELSE IF strip(part) # <<>> THEN <<text_chunk(part)>>
        ELSE <<>>

RECURSIVE display_parts(_, _)
display_parts(dir, parts) ==
    IF parts = <<>> THEN <<>>
    ELSE display_part(dir, Head(parts)) \o display_parts(dir, Tail(parts))

display_article(art, dir) == display_parts(dir, re_split(art))

(***************************************************************************)
(* generate_article (src/app.py 177-228): the prompt lines built from the  *)
(* transcription, and the exception they raise when it has another shape.  *)
(***************************************************************************)
\* format(n, "02d")
pad02d(n) == IF 0 <= n /\ n < 10 THEN "0" \o ToString(n) ELSE ToString(n)

\* lines 171-174, for whole seconds
format_timestamp(seconds) ==
    pad02d(seconds \div 60) \o ":" \o pad02d(seconds % 60)

\* lines 186-189: the lines without their text, or the exception raised by
\* transcription["segments"]
segments_text(t) ==
    IF t.type # "dict" THEN [raised |-> "TypeError", lines |-> <<>>]
    ELSE IF "segments" \notin DOMAIN t.items
    THEN [raised |-> "KeyError", lines |-> <<>>]
    ELSE [raised |-> "",
          lines |-> [k \in DOMAIN t.items.segments |->
                        "[" \o format_timestamp(t.items.segments[k].start)
                        \o " - " \o format_timestamp(t.items.segments[k].end)
                        \o "]"]]

(***************************************************************************)
(* shutil.rmtree(tmp_dir, ignore_errors=True), line 447.                   *)
(***************************************************************************)
\* A removal that leaves the directory in place.
rmtree_keeps(dirs, d) == dirs

rmtree(dirs, d) == dirs \ {d}

(***************************************************************************)
(* Inputs.                                                                 *)
(***************************************************************************)
SeqsUpTo(S, n) == UNION {[1..k -> S] : k \in 0..n}

RECURSIVE concat(_)
concat(pieces) ==
    IF pieces = <<>> THEN <<>> ELSE Head(pieces) \o concat(Tail(pieces))

\* the Markdown text  ![alt](frames/<path>)
placeholder(alt, path) ==
    <<"!", "[">> \o alt \o <<"]", "(", "frames/">> \o path \o <<")">>

\* responses of the transcription service
ResponseTokens == {SP, NL, FENCE, "x"} \cup JsonTokens
Responses == SeqsUpTo(ResponseTokens, MaxResponseLen)

\* articles: up to MaxArticleParts pieces, each a stretch of text, a
\* placeholder, or an image reference that is no placeholder
ArticleParts(f, g) ==
    { <<"A", SP>>, <<SP, "B">>, <<NL>>,
      placeholder(<<"x">>, <<f>>),
      placeholder(<<"y">>, <<g>>),
      placeholder(<<"x">>, <<"sub", "/", f>>),
      placeholder(<<"x">>, <<"sub", "/">>),
      <<"!", "[", "x", "]", "(", f, ")">> }

Articles(f, g) ==
    {concat(ps) : ps \in SeqsUpTo(ArticleParts(f, g), MaxArticleParts)}

NoTranscription == [type |-> "unset", items |-> <<>>]
NoPreview == [raised |-> "", text |-> <<>>]

\* the variables of one request before it has done anything
Fresh ==
    /\ duration = 0 /\ interval = 0 /\ frames = <<>>
    /\ response = <<>> /\ transcription = NoTranscription
    /\ article = <<>> /\ frames_dir = {}
    /\ preview_html = NoPreview /\ displayed = <<>>
    /\ exc = "" /\ error_shown = FALSE

NoRequest == request = 0 /\ tmp_dirs = {}

(***************************************************************************)
(* extract_frames as a function of duration and interval.                  *)
(***************************************************************************)
InitFrames ==
    /\ pc = "extract_frames"
    /\ duration \in 0..(MaxSeconds * Ticks)
    /\ interval \in 1..MaxInterval
    /\ frames = <<>> /\ response = <<>> /\ transcription = NoTranscription
    /\ article = <<>> /\ frames_dir = {}
    /\ preview_html = NoPreview /\ displayed = <<>>
    /\ exc = "" /\ error_shown = FALSE
    /\ NoRequest

CallExtractFrames ==
    /\ pc = "extract_frames"
    /\ frames' = extract_frames(duration, interval)
    /\ frames_dir' = {frames'[k].path : k \in DOMAIN frames'}
    /\ pc' = "frames_returned"
    /\ UNCHANGED <<duration, interval, response, transcription, article,
                   preview_html, displayed, request, tmp_dirs, exc,
                   error_shown>>

NextFrames == CallExtractFrames

SpecFrames == InitFrames /\ [][NextFrames]_vars

Timestamps == {frames[k].timestamp : k \in DOMAIN frames}

\* C2: the timestamp sequence built by extract_frames holds no timestamp
\* twice.
C2_NoDuplicateTimestamps ==
    pc = "frames_returned" =>
        \A a, b \in DOMAIN frames :
            a # b => frames[a].timestamp # frames[b].timestamp

\* C3: the timestamps cover [0, D) with step I: every multiple of the
\* interval below floor(D) is a timestamp, floor(D)-1 is a timestamp, and
\* every timestamp t satisfies 0 <= t < D.
C3_CoversDuration ==
    pc = "frames_returned" =>
        /\ \A m \in 0..(int(duration) - 1) :
               m % interval = 0 => m \in Timestamps
        /\ int(duration) - 1 \in Timestamps
        /\ \A t \in Timestamps : 0 <= t /\ t * Ticks < duration

\* C8: in the returned frame records the index of each record is its
\* 0-based position, timestamps do not decrease along the sequence, and
\* the file names are pairwise distinct.
C8_FrameRecordsOrdered ==
    pc = "frames_returned" =>
        /\ \A k \in DOMAIN frames : frames[k].index = k - 1
        /\ \A k \in DOMAIN frames :
               k > 1 => frames[k - 1].timestamp <= frames[k].timestamp
        /\ \A a, b \in DOMAIN frames :
               a # b => frames[a].filename # frames[b].filename

\* A run of several frames whose last two timestamps are equal.
C8_Witness ==
    /\ pc = "frames_returned"
    /\ Len(frames) >= 3
    /\ frames[Len(frames)].timestamp = frames[Len(frames) - 1].timestamp
    /\ frames[Len(frames)].filename # frames[Len(frames) - 1].filename

(***************************************************************************)
(* transcribe_audio_gemini as a function of the service's response text.   *)
(***************************************************************************)
InitTranscribe ==
    /\ pc = "transcribe"
    /\ response \in Responses
    /\ duration = 0 /\ interval = 0 /\ frames = <<>>
    /\ transcription = NoTranscription
    /\ article = <<>> /\ frames_dir = {}
    /\ preview_html = NoPreview /\ displayed = <<>>
    /\ exc = "" /\ error_shown = FALSE
    /\ NoRequest

ReturnTranscription ==
    /\ pc = "transcribe"
    /\ transcription' = transcribe_result(response)
    /\ pc' = "transcribe_returned"
    /\ UNCHANGED <<duration, interval, frames, response, article, frames_dir,
                   preview_html, displayed, request, tmp_dirs, exc,
                   error_shown>>

NextTranscribe == ReturnTranscription

SpecTranscribe == InitTranscribe /\ [][NextTranscribe]_vars

IsSingleZeroSegment(t, text) ==
    /\ t.type = "dict"
    /\ DOMAIN t.items = {"full_text", "segments"}
    /\ Len(t.items.segments) = 1
    /\ t.items.segments[1].start = 0
    /\ t.items.segments[1].end = 0
    /\ t.items.segments[1].text = text
    /\ t.items.full_text = text

\* C4 as stated: when the response text is not valid JSON the result has
\* exactly one segment, from 0.0 to 0.0, and full_text is the raw response
\* text.
C4_RawFallback ==
    (pc = "transcribe_returned" /\ ~json_valid(response)) =>
        IsSingleZeroSegment(transcription, response)

\* C4 amended: when the response text, stripped of surrounding whitespace
\* and (if it then starts with a code fence) of its fence lines, is not
\* valid JSON, the result has exactly one segment, from 0.0 to 0.0, and
\* full_text is that stripped text.
C4_CleanedFallback ==
    (pc = "transcribe_returned" /\ ~json_valid(clean_response(response))) =>
        IsSingleZeroSegment(transcription, clean_response(response))

\* A fenced response that is no JSON after its fence lines are removed.
C4_Witness ==
    /\ pc = "transcribe_returned"
    /\ startswith(strip(response), FENCE)
    /\ ~json_valid(clean_response(response))
    /\ clean_response(response) # <<>>
    /\ clean_response(response) # response
    /\ transcription.items.full_text = clean_response(response)

(***************************************************************************)
(* The two renderers as functions of the article and the frames directory. *)
(***************************************************************************)
InitRender ==
    /\ pc = "render"
    /\ article \in Articles("f.jpg", "g.jpg")
    /\ frames_dir \in SUBSET {<<"f.jpg">>, <<"g.jpg">>}
    /\ duration = 0 /\ interval = 0 /\ frames = <<>>
    /\ response = <<>> /\ transcription = NoTranscription
    /\ preview_html = NoPreview /\ displayed = <<>>
    /\ exc = "" /\ error_shown = FALSE
    /\ NoRequest

CallGeneratePreviewHtml ==
    /\ pc \in {"render", "displayed"}
    /\ preview_html' = generate_preview_html(article, frames_dir)
    /\ pc' = IF pc = "render" THEN "previewed" ELSE "rendered"
    /\ UNCHANGED <<duration, interval, frames, response, transcription,
                   article, frames_dir, displayed, request, tmp_dirs, exc,
                   error_shown>>

CallDisplayArticle ==
    /\ pc \in {"render", "previewed"}
    /\ displayed' = display_article(article, frames_dir)
    /\ pc' = IF pc = "render" THEN "displayed" ELSE "rendered"
    /\ UNCHANGED <<duration, interval, frames, response, transcription,
                   article, frames_dir, preview_html, request, tmp_dirs, exc,
                   error_shown>>

NextRender == CallGeneratePreviewHtml \/ CallDisplayArticle

SpecRender == InitRender /\ [][NextRender]_vars

PreviewReturned == pc \in {"previewed", "rendered"}
DisplayReturned == pc \in {"displayed", "rendered"}

\* the placeholders of the article, and the image references of the preview
Placeholders == finditer(article, FramesHead)
PreviewRefs == finditer(preview_html.text, {"frames/", DATA_PREFIX})

\* the file a placeholder names: frames_dir/<filename>
Referenced(m) == Tail(m.path)

IsInlined(r) == r.path[1] = DATA_PREFIX

\* C6: for every placeholder of the article, the preview holds a base64
\* data-URI image with the same alt text and no frames/ path if the
\* referenced file exists under frames_dir, and the unchanged placeholder
\* if it does not (whenever generate_preview_html returns).
C6_PreviewInlinesExistingFiles ==
    (PreviewReturned /\ preview_html.raised = "") =>
        /\ Len(PreviewRefs) = Len(Placeholders)
        /\ \A k \in DOMAIN Placeholders :
               IF path_exists(frames_dir, Referenced(Placeholders[k]))
               THEN /\ IsInlined(PreviewRefs[k])
                    /\ PreviewRefs[k].alt = Placeholders[k].alt
                    /\ "frames/" \notin Range(PreviewRefs[k].path)
               ELSE SubSeq(preview_html.text, PreviewRefs[k].start,
                           PreviewRefs[k].end)
                    = SubSeq(article, Placeholders[k].start,
                             Placeholders[k].end)

\* the stretch of text before placeholder k + 1 (after the last one when
\* k is their number)
Stretch(k) ==
    SubSeq(article,
           IF k = 0 THEN 1 ELSE Placeholders[k].end + 1,
           IF k = Len(Placeholders) THEN Len(article)
           ELSE Placeholders[k + 1].start - 1)

ImageOf(m) == image_chunk(Referenced(m), m.alt)

\* the chunks from stretch k on: a text chunk for each stretch that is
\* not empty (and, unless blanks is TRUE, not blank), an image chunk for
\* each placeholder whose file exists
RECURSIVE ChunksFrom(_, _)
ChunksFrom(k, blanks) ==
    (IF Stretch(k) # <<>> /\ (blanks \/ strip(Stretch(k)) # <<>>)
     THEN <<text_chunk(Stretch(k))>> ELSE <<>>)
    \o (IF k = Len(Placeholders) THEN <<>>
        ELSE (IF path_exists(frames_dir, Referenced(Placeholders[k + 1]))
              THEN <<ImageOf(Placeholders[k + 1])>> ELSE <<>>)
             \o ChunksFrom(k + 1, blanks))

\* C7 as stated: display_article emits, in article order, one text chunk
\* for each stretch of text between placeholders and one image chunk for
\* each placeholder whose file exists, and nothing for the others (in an
\* article that holds a placeholder).
C7_ChunkPerStretch ==
    (DisplayReturned /\ Placeholders # <<>>) =>
        displayed = ChunksFrom(0, TRUE)

\* C7 amended: one text chunk, unchanged, for each stretch of text that
\* holds something other than whitespace, one image chunk for each
\* placeholder whose file exists, in article order; a blank stretch and a
\* placeholder whose file is missing emit nothing.
C7_ChunkPerNonBlankStretch ==
    DisplayReturned => displayed = ChunksFrom(0, FALSE)

\* "A ", an image that exists, then a blank stretch that emits nothing.
C7_Witness ==
    /\ DisplayReturned
    /\ Len(displayed) = 2
    /\ displayed[1] = text_chunk(<<"A", SP>>)
    /\ displayed[2].kind = "image"
    /\ Len(Placeholders) = 1
    /\ Stretch(1) = <<NL>>

IsImageChunk(c) == c.kind = "image"

\* the placeholders that the preview inlined, as display_article would
\* show them
RECURSIVE InlinedFrom(_)
InlinedFrom(k) ==
    IF k > Len(Placeholders) THEN <<>>
    ELSE (IF IsInlined(PreviewRefs[k]) THEN <<ImageOf(Placeholders[k])>>
          ELSE <<>>) \o InlinedFrom(k + 1)

\* C10: a placeholder is inlined by generate_preview_html if and only if
\* display_article emits an image chunk for it.
C10_RenderersAgree ==
    (pc = "rendered" /\ preview_html.raised = "") =>
        /\ Len(PreviewRefs) = Len(Placeholders)
        /\ SelectSeq(displayed, IsImageChunk) = InlinedFrom(1)

(***************************************************************************)
(* The convert button handler (src/app.py 370-447): one step per stage.    *)
(* pc = "ended" is the end of the script run, by falling off the try       *)
(* statement or by an exception nothing caught.                            *)
(***************************************************************************)
SliderMin == 3

PipelineDurations == {1, 4 * Ticks, 6 * Ticks + 1}
PipelineIntervals == {SliderMin, SliderMin + 2}

PipelineResponses ==
    { <<JSON_TRANSCRIPT>>,
      <<FENCE, "x", NL, JSON_TRANSCRIPT, NL, FENCE>>,
      <<"x", SP, "x">>,
      <<JSON_NULL>>,
      <<JSON_EMPTY_OBJECT>> }

\* articles the generation service may return, given the extracted frames
PipelineArticles(fs) ==
    LET f == fs[1].filename
    IN  { <<"A", SP>> \o placeholder(<<"x">>, <<f>>) \o <<SP, "B">>,
          placeholder(<<"x">>, <<"sub", "/", f>>),
          placeholder(<<"x">>, <<"sub", "/">>),
          placeholder(<<"y">>, <<"frame_9999_0s.jpg">>) \o <<NL>> }

Init ==
    /\ pc = "idle"
    /\ Fresh
    /\ NoRequest

\* lines 370-373: the button is pressed; tempfile.mkdtemp()
Click ==
    /\ pc \in {"idle", "ended"}
    /\ request < MaxRequests
    /\ request' = request + 1
    /\ tmp_dirs' = tmp_dirs \cup {request + 1}
    /\ interval' \in PipelineIntervals
    /\ duration' = 0 /\ frames' = <<>>
    /\ response' = <<>> /\ transcription' = NoTranscription
    /\ article' = <<>> /\ frames_dir' = {}
    /\ preview_html' = NoPreview /\ displayed' = <<>>
    /\ exc' = "" /\ error_shown' = FALSE
    /\ pc' = "save_video"

\* an exception raised outside the try statement ends the script run
Uncaught(e) ==
    /\ exc' = e
    /\ pc' = "ended"

\* an exception raised inside the try statement
Raise(e) ==
    /\ exc' = e
    /\ pc' = "except"

\* lines 374-376: the upload is written into tmp_dir
SaveVideo ==
    /\ pc = "save_video"
    /\ \/ pc' = "makedirs" /\ exc' = exc
       \/ Uncaught("OSError")
    /\ UNCHANGED <<duration, interval, frames, response, transcription,
                   article, frames_dir, preview_html, displayed, request,
                   tmp_dirs, error_shown>>

\* lines 378-379: os.makedirs(output_dir)
MakeOutputDir ==
    /\ pc = "makedirs"
    /\ \/ pc' = "extract_audio" /\ exc' = exc
       \/ Uncaught("OSError")
    /\ UNCHANGED <<duration, interval, frames, response, transcription,
                   article, frames_dir, preview_html, displayed, request,
                   tmp_dirs, error_shown>>

\* lines 386-387
ExtractAudio ==
    /\ pc = "extract_audio"
    /\ \/ pc' = "extract_frames" /\ exc' = exc
       \/ Raise("CalledProcessError")
    /\ UNCHANGED <<duration, interval, frames, response, transcription,
                   article, frames_dir, preview_html, displayed, request,
                   tmp_dirs, error_shown>>

\* lines 390-391: ffprobe answers or not; then one ffmpeg call per
\* timestamp, the first failing call aborting the stage
ExtractFrames ==
    /\ pc = "extract_frames"
    /\ \/ /\ Raise("JSONDecodeError")
          /\ UNCHANGED <<duration, frames, frames_dir>>
       \/ \E d \in PipelineDurations :
             LET all == extract_frames(d, interval)
             IN  /\ duration' = d
                 /\ \/ /\ frames' = all
                       /\ frames_dir' = {all[k].path : k \in DOMAIN all}
                       /\ pc' = "transcribe" /\ exc' = exc
                    \/ \E n \in DOMAIN all :
                          /\ frames' = frames
                          /\ frames_dir' = {all[k].path : k \in 1..(n - 1)}
                          /\ Raise("CalledProcessError")
    /\ UNCHANGED <<interval, response, transcription, article, preview_html,
                   displayed, request, tmp_dirs, error_shown>>

\* lines 394-395: the service call fails, or returns some text
Transcribe ==
    /\ pc = "transcribe"
    /\ \/ /\ Raise("APIError")
          /\ UNCHANGED <<response, transcription>>
       \/ \E text \in PipelineResponses :
             /\ response' = text
             /\ transcription' = transcribe_result(text)
             /\ pc' = "generate_article" /\ exc' = exc
    /\ UNCHANGED <<duration, interval, frames, article, frames_dir,
                   preview_html, displayed, request, tmp_dirs, error_shown>>

\* lines 398-399: the prompt is built, then the service is called
GenerateArticle ==
    /\ pc = "generate_article"
    /\ IF segments_text(transcription).raised # ""
       THEN Raise(segments_text(transcription).raised) /\ article' = article
       ELSE \/ Raise("APIError") /\ article' = article
            \/ /\ article' \in PipelineArticles(frames)
               /\ pc' = "preview" /\ exc' = exc
    /\ UNCHANGED <<duration, interval, frames, response, transcription,
                   frames_dir, preview_html, displayed, request, tmp_dirs,
                   error_shown>>

\* lines 408-409
GeneratePreview ==
    /\ pc = "preview"
    /\ LET html == generate_preview_html(article, frames_dir)
       IN  IF html.raised # ""
           THEN Raise(html.raised) /\ preview_html' = preview_html
           ELSE preview_html' = html /\ pc' = "display" /\ exc' = exc
    /\ UNCHANGED <<duration, interval, frames, response, transcription,
                   article, frames_dir, displayed, request, tmp_dirs,
                   error_shown>>

\* lines 429-439: the article is displayed and the try block ends
DisplayArticle ==
    /\ pc = "display"
    /\ displayed' = display_article(article, frames_dir)
    /\ pc' = "finally"
    /\ UNCHANGED <<duration, interval, frames, response, transcription,
                   article, frames_dir, preview_html, request, tmp_dirs, exc,
                   error_shown>>

\* lines 441-444: st.error reports the exception
Except ==
    /\ pc = "except"
    /\ error_shown' = TRUE
    /\ pc' = "finally"
    /\ UNCHANGED <<duration, interval, frames, response, transcription,
                   article, frames_dir, preview_html, displayed, request,
                   tmp_dirs, exc>>

\* lines 446-447
Finally ==
    /\ pc = "finally"
    /\ tmp_dirs' = rmtree(tmp_dirs, request)
    /\ frames_dir' = IF request \in tmp_dirs' THEN frames_dir ELSE {}
    /\ pc' = "ended"
    /\ UNCHANGED <<duration, interval, frames, response, transcription,
                   article, preview_html, displayed, request, exc,
                   error_shown>>

Next ==
    \/ Click
    \/ SaveVideo
    \/ MakeOutputDir
    \/ ExtractAudio
    \/ ExtractFrames
    \/ Transcribe
    \/ GenerateArticle
    \/ GeneratePreview
    \/ DisplayArticle
    \/ Except
    \/ Finally

Spec == Init /\ [][Next]_vars

\* C1: once a conversion request has ended, however it ended, the
\* directory made by tempfile.mkdtemp for it no longer exists.
C1_TmpDirRemovedAtEnd ==
    pc = "ended" => request \notin tmp_dirs

ExpectedForm(t) ==
    t.type = "dict" /\ {"full_text", "segments"} \subseteq DOMAIN t.items

ResponseInExpectedForm ==
    /\ json_valid(clean_response(response))
    /\ ExpectedForm(json_loads(clean_response(response)))

\* C5: when the transcription call returned a response that is not in the
\* expected structured form, the request goes on with the single-segment
\* fallback transcript, and the request does not end in an error raised by
\* the shape of the transcript.
C5_ResponseContentNeverAborts ==
    (/\ transcription # NoTranscription
     /\ ~ResponseInExpectedForm
     /\ pc \in {"preview", "display", "finally", "ended"}) =>
        /\ transcription = fallback_transcription(clean_response(response))
        /\ ~(error_shown /\ exc \in {"TypeError", "KeyError"})

====
